---- MODULE Spec2Model ----
(***************************************************************************)
(* Signed planar area (geo/src/algorithm/area.rs) and point-to-segment,    *)
(* point-to-linestring distance and boundary membership                    *)
(* (geo-types/src/private_utils.rs).                                        *)
(*                                                                         *)
(* Numbers.  The code is generic over a numeric type T.  A value of T is   *)
(* modelled exactly, as a normalised fraction [n, d] (d > 0).  Two kinds   *)
(* of T are modelled: "float", whose division is the exact quotient, and   *)
(* "int", whose division truncates toward zero as Rust's integer `/` does. *)
(* A value produced by hypot is a square root; it is carried by its square *)
(* (a Root record), which keeps comparison, minimum and the test against   *)
(* zero exact.  Floating rounding and non-finite values are not modelled.  *)
(***************************************************************************)
EXTENDS Integers, Sequences, FiniteSets, TLC

VARIABLES T, shape, point, pc, result

vars == <<T, shape, point, pc, result>>

----------------------------------------------------------------------------
(* Bounds of the model *)

MaxCoord == 1
MaxRing == 4
MaxInteriors == 2
MaxMembers == 2
MaxDepth == 2
MaxGrid == 2
MaxLineString == 3
Samples == 4

----------------------------------------------------------------------------
(* Exact arithmetic of the numeric type T *)

Abs(a) == IF a < 0 THEN -a ELSE a

RECURSIVE Gcd(_, _)
Gcd(a, b) == IF b = 0 THEN a ELSE Gcd(b, a % b)

TruncDiv(a, b) ==
    LET q == Abs(a) \div Abs(b)
    IN  IF (a < 0) = (b < 0) THEN q ELSE -q

\* A division by zero yields NaN, as the floating quotient 0/0 does; NaN
\* propagates through the arithmetic and every comparison with it is false.
NaN == [n |-> 0, d |-> 0]

IsNaN(a) == a.d = 0 /\ a.n = 0

Frac(n, d) ==
    IF d = 0 THEN NaN
    ELSE LET g == Gcd(Abs(n), Abs(d))
             s == IF d < 0 THEN -1 ELSE 1
         IN  [n |-> s * (n \div g), d |-> s * (d \div g)]

R(i) == [n |-> i, d |-> 1]

Zero == R(0)
One == R(1)

\* whole numbers need no normalisation
Add(a, b) ==
    IF a.d = 1 /\ b.d = 1 THEN [n |-> a.n + b.n, d |-> 1]
    ELSE Frac(a.n * b.d + b.n * a.d, a.d * b.d)
Sub(a, b) ==
    IF a.d = 1 /\ b.d = 1 THEN [n |-> a.n - b.n, d |-> 1]
    ELSE Frac(a.n * b.d - b.n * a.d, a.d * b.d)
Mul(a, b) ==
    IF a.d = 1 /\ b.d = 1 THEN [n |-> a.n * b.n, d |-> 1]
    ELSE Frac(a.n * b.n, a.d * b.d)
Neg(a) == [n |-> -a.n, d |-> a.d]
Le(a, b) == ~IsNaN(a) /\ ~IsNaN(b) /\ a.n * b.d <= b.n * a.d
Lt(a, b) == ~IsNaN(a) /\ ~IsNaN(b) /\ a.n * b.d < b.n * a.d
NumMin(a, b) == IF Le(a, b) THEN a ELSE b
NumMax(a, b) == IF Le(a, b) THEN b ELSE a
NumAbs(a) == [n |-> Abs(a.n), d |-> a.d]

Div(kind, a, b) ==
    IF b.n = 0 THEN NaN
    ELSE IF kind = "int" THEN R(TruncDiv(a.n, b.n))
    ELSE Frac(a.n * b.d, a.d * b.n)

Kinds == {"float", "int"}

----------------------------------------------------------------------------
(* Geometry values *)

Coord(i, j) == [x |-> R(i), y |-> R(j)]

Coords == {Coord(i, j) : i \in 0..MaxCoord, j \in 0..MaxCoord}

SeqsUpTo(S, k) == UNION {[1..m -> S] : m \in 0..k}

Geom(kind, coords, rings, members) ==
    [kind |-> kind, coords |-> coords, rings |-> rings, members |-> members]

MkPoint(c) == Geom("Point", <<c>>, <<>>, <<>>)
MkLine(s, e) == Geom("Line", <<s, e>>, <<>>, <<>>)
MkLineString(cs) == Geom("LineString", cs, <<>>, <<>>)
MkPolygon(ext, ints) == Geom("Polygon", ext, ints, <<>>)
MkMultiPoint(cs) == Geom("MultiPoint", cs, <<>>, <<>>)
MkMultiLineString(ls) == Geom("MultiLineString", <<>>, ls, <<>>)
MkMultiPolygon(ps) == Geom("MultiPolygon", <<>>, <<>>, ps)
MkGeometryCollection(gs) == Geom("GeometryCollection", <<>>, <<>>, gs)
MkRect(lo, hi) == Geom("Rect", <<lo, hi>>, <<>>, <<>>)
MkTriangle(a, b, c) == Geom("Triangle", <<a, b, c>>, <<>>, <<>>)

exterior(p) == p.coords
interiors(p) == p.rings

Range(s) == {s[i] : i \in 1..Len(s)}

Reverse(s) == [i \in 1..Len(s) |-> s[Len(s) + 1 - i]]

\* LineString::lines: the consecutive pairs of coordinates
lines(ls) == [i \in 1..(IF Len(ls) = 0 THEN 0 ELSE Len(ls) - 1) |->
                 [start |-> ls[i], end |-> ls[i + 1]]]

\* Line::determinant
determinant(l) == Sub(Mul(l.start.x, l.end.y), Mul(l.start.y, l.end.x))

twice_signed_ring_area(ls) ==
    LET ln == lines(ls)
        acc[i \in 0..Len(ln)] ==
            IF i = 0 THEN Zero ELSE Add(acc[i - 1], determinant(ln[i]))
    IN  acc[Len(ln)]

width(r) == Sub(r.coords[2].x, r.coords[1].x)
height(r) == Sub(r.coords[2].y, r.coords[1].y)

to_lines(t) ==
    << [start |-> t.coords[1], end |-> t.coords[2]],
       [start |-> t.coords[2], end |-> t.coords[3]],
       [start |-> t.coords[3], end |-> t.coords[1]] >>

----------------------------------------------------------------------------
(* area.rs *)

\* the sign of the winding is dropped
get_linestring_area_Unsigned(kind, linestring) ==
    NumAbs(Div(kind, twice_signed_ring_area(linestring), Add(One, One)))

get_linestring_area(kind, linestring) ==
    Div(kind, twice_signed_ring_area(linestring), Add(One, One))

\* the exterior and the interiors are summed, then halved once
area_polygon_HalveOnce(kind, polygon) ==
    LET ints == interiors(polygon)
        acc[i \in 0..Len(ints)] ==
            IF i = 0 THEN twice_signed_ring_area(exterior(polygon))
            ELSE Sub(acc[i - 1], twice_signed_ring_area(ints[i]))
    IN  Div(kind, acc[Len(ints)], Add(One, One))

area_polygon(kind, polygon) ==
    LET ints == interiors(polygon)
        acc[i \in 0..Len(ints)] ==
            IF i = 0 THEN get_linestring_area(kind, exterior(polygon))
            ELSE Sub(acc[i - 1], get_linestring_area(kind, ints[i]))
    IN  acc[Len(ints)]

area_rect_Square(kind, rect) == Mul(width(rect), width(rect))

area_rect(kind, rect) == Mul(width(rect), height(rect))

\* the closing edge (v2, v0) is left out
area_triangle_OpenRing(kind, triangle) ==
    LET ln == to_lines(triangle)
        acc[i \in 0..2] ==
            IF i = 0 THEN Zero ELSE Add(acc[i - 1], determinant(ln[i]))
    IN  Div(kind, acc[2], Add(One, One))

area_triangle(kind, triangle) ==
    LET ln == to_lines(triangle)
        acc[i \in 0..Len(ln)] ==
            IF i = 0 THEN Zero ELSE Add(acc[i - 1], determinant(ln[i]))
    IN  Div(kind, acc[Len(ln)], Add(One, One))

RECURSIVE area(_, _)

area_multi_polygon(kind, multi_polygon) ==
    LET ms == multi_polygon.members
        acc[i \in 0..Len(ms)] ==
            IF i = 0 THEN Zero ELSE Add(acc[i - 1], area(kind, ms[i]))
    IN  acc[Len(ms)]

\* only the first member is counted
area_geometry_collection_First(kind, geometry_collection) ==
    LET ms == geometry_collection.members
    IN  IF Len(ms) = 0 THEN Zero ELSE area(kind, ms[1])

area_geometry_collection(kind, geometry_collection) ==
    LET ms == geometry_collection.members
        acc[i \in 0..Len(ms)] ==
            IF i = 0 THEN Zero ELSE Add(acc[i - 1], area(kind, ms[i]))
    IN  acc[Len(ms)]

area(kind, g) ==
    CASE g.kind = "Point" -> Zero
      [] g.kind = "Line" -> Zero
      [] g.kind = "LineString" -> Zero
      [] g.kind = "Polygon" -> area_polygon(kind, g)
      [] g.kind = "MultiPoint" -> Zero
      [] g.kind = "MultiLineString" -> Zero
      [] g.kind = "MultiPolygon" -> area_multi_polygon(kind, g)
      [] g.kind = "GeometryCollection" -> area_geometry_collection(kind, g)
      [] g.kind = "Rect" -> area_rect(kind, g)
      [] g.kind = "Triangle" -> area_triangle(kind, g)

----------------------------------------------------------------------------
(* Inputs of the area specifications *)

None == "none"

Rings == SeqsUpTo(Coords, MaxRing)

Square(x0, y0, side) ==
    << Coord(x0, y0), Coord(x0 + side, y0), Coord(x0 + side, y0 + side),
       Coord(x0, y0 + side), Coord(x0, y0) >>

\* the exterior and the two holes of test::area_polygon_inner_test
TestExterior == Square(0, 0, 10)
TestHoleA == Square(1, 1, 1)
TestHoleB == Square(5, 5, 1)
\* the doc example of the Area trait
DocExterior ==
    << Coord(0, 0), Coord(5, 0), Coord(5, 6), Coord(0, 6), Coord(0, 0) >>

HoleRings ==
    { TestHoleA, TestHoleB, Reverse(TestHoleA),
      << Coord(2, 2), Coord(3, 2), Coord(2, 3), Coord(2, 2) >>,
      << Coord(4, 1), Coord(7, 1), Coord(4, 2), Coord(4, 1) >>,
      << Coord(3, 3), Coord(4, 4) >> }

ExteriorRings ==
    { TestExterior, DocExterior, Reverse(TestExterior),
      << Coord(0, 0), Coord(9, 0), Coord(0, 1), Coord(0, 0) >> }

SimplePolygons == {MkPolygon(r, <<>>) : r \in Rings \cup ExteriorRings}

HoledPolygons ==
    {MkPolygon(e, hs) : e \in ExteriorRings,
                        hs \in SeqsUpTo(HoleRings, MaxInteriors) \ {<<>>}}

Polygons == SimplePolygons \cup HoledPolygons

Rects == {MkRect(lo, hi) : lo \in Coords, hi \in Coords}
           \cup {MkRect(Coord(10, 30), Coord(20, 40))}

Triangles == {MkTriangle(a, b, c) : a \in Coords, b \in Coords, c \in Coords}

----------------------------------------------------------------------------
(* Area of a polygon: the input is drawn, then area() is applied to it *)

InitPolygon ==
    /\ T \in Kinds
    /\ shape \in Polygons
    /\ point = None
    /\ pc = "ready"
    /\ result = None

AreaPolygon ==
    /\ pc = "ready"
    /\ shape.kind = "Polygon"
    /\ interiors(shape) = <<>>
    /\ result' = area(T, shape)
    /\ pc' = "done"
    /\ UNCHANGED <<T, shape, point>>

AreaPolygonWithInteriors ==
    /\ pc = "ready"
    /\ shape.kind = "Polygon"
    /\ interiors(shape) # <<>>
    /\ result' = area(T, shape)
    /\ pc' = "done"
    /\ UNCHANGED <<T, shape, point>>

NextPolygon == AreaPolygon \/ AreaPolygonWithInteriors

SpecPolygon == InitPolygon /\ [][NextPolygon]_vars

----------------------------------------------------------------------------
(* Orientation of a ring, decided by its turns and not by its area *)

Cross(o, a, b) ==
    Sub(Mul(Sub(a.x, o.x), Sub(b.y, o.y)), Mul(Sub(a.y, o.y), Sub(b.x, o.x)))

IsClosed(ring) == Len(ring) >= 4 /\ ring[1] = ring[Len(ring)]

\* closed, and every vertex is a strict left turn: a convex ring wound
\* counter-clockwise
IsCounterClockwise(ring) ==
    /\ IsClosed(ring)
    /\ LET m == Len(ring) - 1
           v(i) == ring[((i - 1) % m) + 1]
       IN  \A i \in 1..m : Lt(Zero, Cross(v(i), v(i + 1), v(i + 2)))

ReversedExterior(p) == MkPolygon(Reverse(exterior(p)), interiors(p))

SimpleDone == pc = "done" /\ shape.kind = "Polygon" /\ interiors(shape) = <<>>

\* C1 (as stated): reversing the exterior of a polygon without interiors
\* negates its area, and a counter-clockwise closed exterior gives a
\* positive area.
C1_Original ==
    SimpleDone =>
        /\ area(T, ReversedExterior(shape)) = Neg(result)
        /\ IsCounterClockwise(exterior(shape)) => Lt(Zero, result)

\* C1 (amended): reversing the exterior of a polygon without interiors
\* negates its area; a counter-clockwise closed exterior gives a positive
\* area for a floating T, and for an integer T a non-negative area that is
\* positive when twice the ring area is at least 2 (the halving truncates).
C1_ReverseNegates ==
    SimpleDone =>
        /\ area(T, ReversedExterior(shape)) = Neg(result)
        /\ IsCounterClockwise(exterior(shape)) =>
              /\ T = "float" => Lt(Zero, result)
              /\ T = "int" => Le(Zero, result)
              /\ Le(R(2), twice_signed_ring_area(exterior(shape)))
                    => Lt(Zero, result)

\* the doc example of the Area trait: 30, and -30 once reversed
C1_Witness ==
    /\ SimpleDone
    /\ shape = MkPolygon(DocExterior, <<>>)
    /\ IsCounterClockwise(exterior(shape))
    /\ result = R(30)
    /\ area(T, ReversedExterior(shape)) = R(-30)

\* Sum of the ring areas of the interiors, taken from the last to the first
RECURSIVE InteriorAreaSum(_, _)
InteriorAreaSum(kind, rings) ==
    IF rings = <<>> THEN Zero
    ELSE Add(Div(kind, twice_signed_ring_area(Head(rings)), R(2)),
             InteriorAreaSum(kind, Tail(rings)))

\* C2: the area of a polygon is the signed ring area of its exterior
\* (twice-signed-ring-area / 2) minus the signed ring area of each interior;
\* the 10x10 square with the two 1x1 holes has area 98.
C2_ExteriorMinusInteriors ==
    (pc = "done" /\ shape.kind = "Polygon") =>
        /\ result = Sub(Div(T, twice_signed_ring_area(exterior(shape)), R(2)),
                        InteriorAreaSum(T, interiors(shape)))
        /\ shape = MkPolygon(TestExterior, <<TestHoleA, TestHoleB>>)
              => result = R(98)

C2_Witness ==
    /\ pc = "done"
    /\ shape = MkPolygon(TestExterior, <<TestHoleA, TestHoleB>>)
    /\ result = R(98)

----------------------------------------------------------------------------
(* Area of a Rect and of a Triangle *)

InitShapes ==
    /\ T \in Kinds
    /\ shape \in Rects \cup Triangles
    /\ point = None
    /\ pc = "ready"
    /\ result = None

AreaRect ==
    /\ pc = "ready"
    /\ shape.kind = "Rect"
    /\ result' = area(T, shape)
    /\ pc' = "done"
    /\ UNCHANGED <<T, shape, point>>

AreaTriangle ==
    /\ pc = "ready"
    /\ shape.kind = "Triangle"
    /\ result' = area(T, shape)
    /\ pc' = "done"
    /\ UNCHANGED <<T, shape, point>>

NextShapes == AreaRect \/ AreaTriangle

SpecShapes == InitShapes /\ [][NextShapes]_vars

RectMin(r) == r.coords[1]
RectMax(r) == r.coords[2]

\* C4: the area of a Rect, over a floating or an integer T, is
\* (max.x - min.x) * (max.y - min.y), hence >= 0 whenever min <= max
\* component-wise.
C4_RectArea ==
    (pc = "done" /\ shape.kind = "Rect") =>
        LET lo == RectMin(shape)
            hi == RectMax(shape)
        IN  /\ result = Mul(Sub(hi.x, lo.x), Sub(hi.y, lo.y))
            /\ (Le(lo.x, hi.x) /\ Le(lo.y, hi.y)) => Le(Zero, result)

\* test::rectangle_test, for the integer T
C4_Witness ==
    /\ pc = "done"
    /\ T = "int"
    /\ shape = MkRect(Coord(10, 30), Coord(20, 40))
    /\ result = R(100)

Det(a, b) == Sub(Mul(a.x, b.y), Mul(b.x, a.y))

TriangleFacts(strict) ==
    (pc = "done" /\ shape.kind = "Triangle") =>
        LET v0 == shape.coords[1]
            v1 == shape.coords[2]
            v2 == shape.coords[3]
            turn == Cross(v0, v1, v2)
        IN  /\ result = Div(T, Add(Add(Det(v0, v1), Det(v1, v2)), Det(v2, v0)),
                            R(2))
            /\ result = get_linestring_area(T, <<v0, v1, v2, v0>>)
            /\ area(T, MkTriangle(v1, v0, v2)) = Neg(result)
            /\ area(T, MkTriangle(v0, v2, v1)) = Neg(result)
            /\ area(T, MkTriangle(v2, v1, v0)) = Neg(result)
            /\ Lt(Zero, turn) =>
                  IF strict \/ T = "float" THEN Lt(Zero, result)
                  ELSE Le(Zero, result)
            /\ Lt(turn, Zero) =>
                  IF strict \/ T = "float" THEN Lt(result, Zero)
                  ELSE Le(result, Zero)

\* C5 (as stated): the area of a Triangle is half the sum of the determinants
\* of its three edges, the value the ring formula gives for v0,v1,v2,v0;
\* swapping two vertices negates it; counter-clockwise is positive and
\* clockwise negative.
C5_Original == TriangleFacts(TRUE)

\* C5 (amended): as stated, except that for an integer T the halving
\* truncates toward zero, so a counter-clockwise triangle has an area >= 0
\* and a clockwise one an area <= 0 (0 when twice the area is 1).
C5_TriangleArea == TriangleFacts(FALSE)

\* test::area_triangle_test, the clockwise triangle: -1/2
C5_Witness ==
    /\ pc = "done"
    /\ T = "float"
    /\ shape = MkTriangle(Coord(0, 0), Coord(0, 1), Coord(1, 0))
    /\ result = Frac(-1, 2)
    /\ area(T, MkTriangle(Coord(0, 0), Coord(1, 0), Coord(0, 1))) = Frac(1, 2)

----------------------------------------------------------------------------
(* Area of the composite shapes *)

\* the polygons of test::area_multipolygon_test
Poly0 == MkPolygon(Square(0, 0, 10), <<>>)
Poly1 == MkPolygon(Square(1, 1, 1), <<>>)
Poly2 == MkPolygon(Square(5, 5, 1), <<>>)
HalfPolygon ==
    MkPolygon(<< Coord(0, 0), Coord(1, 0), Coord(0, 1), Coord(0, 0) >>, <<>>)
HalfTriangle == MkTriangle(Coord(0, 0), Coord(0, 1), Coord(1, 0))

ZeroKinds == {"Point", "Line", "LineString", "MultiPoint", "MultiLineString"}

ZeroLeaves ==
    { MkPoint(Coord(1, 1)),
      MkLine(Coord(0, 0), Coord(1, 1)),
      MkLineString(Square(0, 0, 3)),
      MkMultiPoint(<< Coord(0, 0), Coord(2, 1) >>),
      MkMultiLineString(<< Square(0, 0, 2), << Coord(0, 0), Coord(1, 1) >> >>) }

AreaLeaves ==
    { HalfPolygon, MkPolygon(TestExterior, <<TestHoleA, TestHoleB>>),
      MkRect(Coord(10, 30), Coord(20, 40)), HalfTriangle }

MultiPolygons ==
    {MkMultiPolygon(ps) :
        ps \in SeqsUpTo({Poly0, Poly1, HalfPolygon}, MaxMembers)
                  \cup {<<Poly0, Poly1, Poly2>>}}

InnerCollections ==
    { MkGeometryCollection(<<>>),
      MkGeometryCollection(<<HalfTriangle>>),
      MkGeometryCollection(<<MkLineString(Square(0, 0, 3)), HalfTriangle>>),
      MkGeometryCollection(<<Poly1, MkMultiPolygon(<<Poly1, HalfPolygon>>)>>) }

\* collections nested to depth at most d inside another collection
RECURSIVE Nested(_)
Nested(d) ==
    IF d <= 1 THEN InnerCollections
    ELSE LET prev == Nested(d - 1)
         IN  prev \cup {MkGeometryCollection(<<g>>) : g \in prev}
                  \cup {MkGeometryCollection(<<HalfTriangle, g>>) : g \in prev}

MemberPool ==
    ZeroLeaves \cup AreaLeaves
        \cup { MkMultiPolygon(<<>>), MkMultiPolygon(<<Poly0, Poly1, Poly2>>),
               MkMultiPolygon(<<HalfPolygon>>) }
        \cup Nested(MaxDepth - 1)

GeometryCollections ==
    {MkGeometryCollection(ms) : ms \in SeqsUpTo(MemberPool, MaxMembers)}

InitComposite ==
    /\ T \in Kinds
    /\ shape \in MultiPolygons \cup GeometryCollections
    /\ point = None
    /\ pc = "ready"
    /\ result = None

AreaMultiPolygon ==
    /\ pc = "ready"
    /\ shape.kind = "MultiPolygon"
    /\ result' = area(T, shape)
    /\ pc' = "done"
    /\ UNCHANGED <<T, shape, point>>

AreaGeometryCollection ==
    /\ pc = "ready"
    /\ shape.kind = "GeometryCollection"
    /\ result' = area(T, shape)
    /\ pc' = "done"
    /\ UNCHANGED <<T, shape, point>>

NextComposite == AreaMultiPolygon \/ AreaGeometryCollection

SpecComposite == InitComposite /\ [][NextComposite]_vars

IsComposite(g) == g.kind \in {"MultiPolygon", "GeometryCollection"}

\* the members of a composite, nested composites replaced by their members
RECURSIVE Flatten(_)
Flatten(g) ==
    IF ~IsComposite(g) THEN <<g>>
    ELSE LET ms == g.members
             f[i \in 0..Len(ms)] ==
                 IF i = 0 THEN <<>> ELSE f[i - 1] \o Flatten(ms[i])
         IN  f[Len(ms)]

RECURSIVE SumFromTail(_, _)
SumFromTail(kind, gs) ==
    IF gs = <<>> THEN Zero
    ELSE Add(area(kind, Head(gs)), SumFromTail(kind, Tail(gs)))

RECURSIVE Depth(_)
Depth(g) ==
    IF ~IsComposite(g) THEN 0
    ELSE LET ms == g.members
             f[i \in 0..Len(ms)] ==
                 IF i = 0 THEN 0
                 ELSE IF Depth(ms[i]) > f[i - 1] THEN Depth(ms[i]) ELSE f[i - 1]
         IN  1 + f[Len(ms)]

\* C3: the area of a MultiPolygon or GeometryCollection, nested to any depth,
\* is defined and is the sum of the areas of its members; members of the
\* kinds without area contribute 0 and an empty composite has area 0.
C3_CompositeSum ==
    (pc = "done" /\ IsComposite(shape)) =>
        LET leaves == Flatten(shape)
            counted == SelectSeq(leaves, LAMBDA g : g.kind \notin ZeroKinds)
        IN  /\ result = SumFromTail(T, shape.members)
            /\ result = SumFromTail(T, leaves)
            /\ result = SumFromTail(T, counted)
            /\ \A i \in 1..Len(shape.members) :
                  shape.members[i].kind \in ZeroKinds
                      => area(T, shape.members[i]) = Zero
            /\ shape.members = <<>> => result = Zero
            /\ shape = MkMultiPolygon(<<Poly0, Poly1, Poly2>>)
                  => result = R(102)

\* a collection holding a line and a collection nested two deep
C3_Witness ==
    /\ pc = "done"
    /\ shape.kind = "GeometryCollection"
    /\ Len(shape.members) = 2
    /\ shape.members[1].kind = "Line"
    /\ Depth(shape) = 3
    /\ T = "float"
    /\ result = Frac(5, 2)

----------------------------------------------------------------------------
(* private_utils.rs *)

\* A value of T obtained as a square root, carried by its square.
Root(sq) == [sq |-> sq]

DistZero == Root(Zero)

\* T::max_value(): above every distance of the model
MaxValue == Root([n |-> 1, d |-> 0])

hypot(a, b) == Root(Add(Mul(a, a), Mul(b, b)))

\* q.abs() * root
AbsTimes(q, root) == Root(Mul(Mul(q, q), root.sq))

DistMin(a, b) == IF Le(a.sq, b.sq) THEN a ELSE b

line_euclidean_length(line) ==
    hypot(Sub(line.end.x, line.start.x), Sub(line.end.y, line.start.y))

\* the degenerate segment is not returned early
line_segment_distance_NoGuard(p, start, end) ==
    LET dx == Sub(end.x, start.x)
        dy == Sub(end.y, start.y)
        len2 == Add(Mul(dx, dx), Mul(dy, dy))
        r == Div("float",
                 Add(Mul(Sub(p.x, start.x), dx), Mul(Sub(p.y, start.y), dy)),
                 len2)
        s == Div("float",
                 Sub(Mul(Sub(start.y, p.y), dx), Mul(Sub(start.x, p.x), dy)),
                 len2)
    IN  IF Le(r, Zero)
        THEN line_euclidean_length([start |-> p, end |-> start])
        ELSE IF Le(One, r)
        THEN line_euclidean_length([start |-> p, end |-> end])
        ELSE AbsTimes(s, hypot(dx, dy))

line_segment_distance(p, start, end) ==
    IF start = end
    THEN line_euclidean_length([start |-> p, end |-> start])
    ELSE
    LET dx == Sub(end.x, start.x)
        dy == Sub(end.y, start.y)
        r == Div("float",
                 Add(Mul(Sub(p.x, start.x), dx), Mul(Sub(p.y, start.y), dy)),
                 Add(Mul(dx, dx), Mul(dy, dy)))
        s == Div("float",
                 Sub(Mul(Sub(start.y, p.y), dx), Mul(Sub(start.x, p.x), dy)),
                 Add(Mul(dx, dx), Mul(dy, dy)))
    IN  IF Le(r, Zero)
        THEN line_euclidean_length([start |-> p, end |-> start])
        ELSE IF Le(One, r)
        THEN line_euclidean_length([start |-> p, end |-> end])
        ELSE AbsTimes(s, hypot(dx, dy))

point_line_euclidean_distance(p, l) == line_segment_distance(p, l.start, l.end)

\* 1 / f32::EPSILON, f32::EPSILON = 2^-23 being the default epsilon of
\* relative_eq!
F32EpsilonInverse == 8388608

\* relative_eq!(distance.to_f32(), 0.0): against 0 the relative test cannot
\* succeed, so the macro decides distance <= f32::EPSILON, which on the
\* square of the distance is sq * 2^46 <= 1.
relative_eq_zero(distance) ==
    /\ ~IsNaN(distance.sq)
    /\ distance.sq.d # 0
    /\ distance.sq.n
          <= (distance.sq.d \div F32EpsilonInverse) \div F32EpsilonInverse

point_contains_point(p1, p2) ==
    LET distance == line_euclidean_length([start |-> p1, end |-> p2])
    IN  relative_eq_zero(distance)

\* a point on the line of any segment and between its ends is contained
line_string_contains_point_AnySegment(line_string, p) ==
    IF Len(line_string) = 0 THEN FALSE
    ELSE IF Len(line_string) = 1 THEN point_contains_point(line_string[1], p)
    ELSE IF \E i \in 1..Len(line_string) : line_string[i] = p THEN TRUE
    ELSE \E line \in Range(lines(line_string)) :
            LET dx == Sub(line.end.x, line.start.x)
                dy == Sub(line.end.y, line.start.y)
            IN  /\ Mul(Sub(p.x, line.start.x), dy)
                      = Mul(Sub(p.y, line.start.y), dx)
                /\ Le(NumMin(line.start.x, line.end.x), p.x)
                /\ Le(p.x, NumMax(line.start.x, line.end.x))
                /\ Le(NumMin(line.start.y, line.end.y), p.y)
                /\ Le(p.y, NumMax(line.start.y, line.end.y))

\* the point's row (column) is not compared with the segment's
line_string_contains_point_NoRowCheck(line_string, p) ==
    IF Len(line_string) = 0 THEN FALSE
    ELSE IF Len(line_string) = 1 THEN point_contains_point(line_string[1], p)
    ELSE IF \E i \in 1..Len(line_string) : line_string[i] = p THEN TRUE
    ELSE \E line \in Range(lines(line_string)) :
            \/ /\ line.start.y = line.end.y
               /\ Lt(NumMin(line.start.x, line.end.x), p.x)
               /\ Lt(p.x, NumMax(line.start.x, line.end.x))
            \/ /\ line.start.x = line.end.x
               /\ Lt(NumMin(line.start.y, line.end.y), p.y)
               /\ Lt(p.y, NumMax(line.start.y, line.end.y))

line_string_contains_point(line_string, p) ==
    IF Len(line_string) = 0 THEN FALSE
    ELSE IF Len(line_string) = 1 THEN point_contains_point(line_string[1], p)
    ELSE IF \E i \in 1..Len(line_string) : line_string[i] = p THEN TRUE
    ELSE \E line \in Range(lines(line_string)) :
            \/ /\ line.start.y = line.end.y
               /\ line.start.y = p.y
               /\ Lt(NumMin(line.start.x, line.end.x), p.x)
               /\ Lt(p.x, NumMax(line.start.x, line.end.x))
            \/ /\ line.start.x = line.end.x
               /\ line.start.x = p.x
               /\ Lt(NumMin(line.start.y, line.end.y), p.y)
               /\ Lt(p.y, NumMax(line.start.y, line.end.y))

\* only the empty check guards the fold
point_line_string_euclidean_distance_NoFastPath(p, l) ==
    IF Len(l) = 0 THEN DistZero
    ELSE LET ln == lines(l)
             acc[i \in 0..Len(ln)] ==
                 IF i = 0 THEN MaxValue
                 ELSE DistMin(acc[i - 1],
                              line_segment_distance(p, ln[i].start, ln[i].end))
         IN  acc[Len(ln)]

point_line_string_euclidean_distance(p, l) ==
    IF line_string_contains_point(l, p) \/ Len(l) = 0 THEN DistZero
    ELSE LET ln == lines(l)
             acc[i \in 0..Len(ln)] ==
                 IF i = 0 THEN MaxValue
                 ELSE DistMin(acc[i - 1],
                              line_segment_distance(p, ln[i].start, ln[i].end))
         IN  acc[Len(ln)]

----------------------------------------------------------------------------
(* Distance from a point to a segment *)

\* MaxGrid + 1 columns of three rows: three rows and three columns are the
\* least that put a lattice point strictly inside a diagonal segment
GridCoords == {Coord(i, j) : i \in 0..MaxGrid, j \in 0..2}

InitSegment ==
    /\ T = "float"
    /\ \E s \in GridCoords, e \in GridCoords : shape = MkLine(s, e)
    /\ point \in GridCoords
    /\ pc = "ready"
    /\ result = None

LineSegmentDistance ==
    /\ pc = "ready"
    /\ shape.kind = "Line"
    /\ result' = line_segment_distance(point, shape.coords[1], shape.coords[2])
    /\ pc' = "line_segment_distance"
    /\ UNCHANGED <<T, shape, point>>

PointLineEuclideanDistance ==
    /\ pc = "ready"
    /\ shape.kind = "Line"
    /\ result' = point_line_euclidean_distance(
                     point, [start |-> shape.coords[1], end |-> shape.coords[2]])
    /\ pc' = "point_line_euclidean_distance"
    /\ UNCHANGED <<T, shape, point>>

NextSegment == LineSegmentDistance \/ PointLineEuclideanDistance

SpecSegment == InitSegment /\ [][NextSegment]_vars

Dot(o, a, b) ==
    Add(Mul(Sub(a.x, o.x), Sub(b.x, o.x)), Mul(Sub(a.y, o.y), Sub(b.y, o.y)))

DistSq(a, b) == Dot(a, b, b)

\* the point of the segment at parameter t
Along(s, e, t) ==
    [x |-> Add(s.x, Mul(t, Sub(e.x, s.x))), y |-> Add(s.y, Mul(t, Sub(e.y, s.y)))]

SegmentDone == pc \in {"line_segment_distance", "point_line_euclidean_distance"}

\* C8: segment_distance(point, start, end) is the distance from point to the
\* nearest point of the closed segment: distance(point, start) when
\* start = end or r <= 0, distance(point, end) when r >= 1, otherwise
\* |cross(start-point, end-start)| / |end-start|; no division by the zero
\* squared length takes place.
C8_SegmentDistance ==
    SegmentDone =>
        LET s == shape.coords[1]
            e == shape.coords[2]
            dot == Dot(s, point, e)
            len2 == DistSq(s, e)
            cross == Cross(s, e, point)
            clamp == IF s = e \/ Le(dot, Zero) THEN Zero
                     ELSE IF Le(len2, dot) THEN One
                     ELSE Frac(dot.n * len2.d, dot.d * len2.n)
        IN  /\ ~IsNaN(result.sq)
            /\ (s = e \/ Le(dot, Zero)) => result.sq = DistSq(point, s)
            /\ (s # e /\ Le(len2, dot)) => result.sq = DistSq(point, e)
            /\ (s # e /\ Lt(Zero, dot) /\ Lt(dot, len2))
                  => Mul(result.sq, len2) = Mul(cross, cross)
            /\ result.sq = DistSq(point, Along(s, e, clamp))
            /\ \A j \in 0..Samples :
                  Le(result.sq, DistSq(point, Along(s, e, Frac(j, Samples))))

\* the perpendicular case on a diagonal segment, and the degenerate segment
C8_Witness ==
    /\ pc = "line_segment_distance"
    /\ shape = MkLine(Coord(0, 0), Coord(2, 2))
    /\ point = Coord(0, 1)
    /\ result = Root(Frac(1, 2))
    /\ line_segment_distance(Coord(1, 2), Coord(0, 0), Coord(0, 0)) = Root(R(5))

----------------------------------------------------------------------------
(* Distance from a point to a linestring, and boundary membership *)

LineStrings == SeqsUpTo(GridCoords, MaxLineString)

InitLineString ==
    /\ T = "float"
    /\ \E l \in LineStrings : shape = MkLineString(l)
    /\ point \in GridCoords
    /\ pc = "ready"
    /\ result = None

PointLineStringEuclideanDistance ==
    /\ pc = "ready"
    /\ shape.kind = "LineString"
    /\ result' = point_line_string_euclidean_distance(point, shape.coords)
    /\ pc' = "point_line_string_euclidean_distance"
    /\ UNCHANGED <<T, shape, point>>

LineStringContainsPoint ==
    /\ pc = "ready"
    /\ shape.kind = "LineString"
    /\ result' = line_string_contains_point(shape.coords, point)
    /\ pc' = "line_string_contains_point"
    /\ UNCHANGED <<T, shape, point>>

NextLineString == PointLineStringEuclideanDistance \/ LineStringContainsPoint

SpecLineString == InitLineString /\ [][NextLineString]_vars

DistanceDone == pc = "point_line_string_euclidean_distance"
ContainsDone == pc = "line_string_contains_point"

IsVertex(l, p) == \E i \in 1..Len(l) : l[i] = p

\* p lies on the segment (s, e), strictly between its ends
StrictlyInside(p, s, e) ==
    /\ Cross(s, e, p) = Zero
    /\ Lt(Zero, Dot(s, p, e))
    /\ Lt(Dot(s, p, e), DistSq(s, e))

IsAxisAligned(s, e) == s.x = e.x \/ s.y = e.y

InsideAxisAligned(l, p) ==
    \E i \in 1..(Len(l) - 1) :
        IsAxisAligned(l[i], l[i + 1]) /\ StrictlyInside(p, l[i], l[i + 1])

InsideDiagonal(l, p) ==
    \E i \in 1..(Len(l) - 1) :
        ~IsAxisAligned(l[i], l[i + 1]) /\ StrictlyInside(p, l[i], l[i + 1])

\* C6: a point equal to a vertex of the linestring, or strictly between the
\* ends of a horizontal or vertical segment of it, is at distance exactly 0.
C6_OnLineStringIsZero ==
    (DistanceDone /\ (IsVertex(shape.coords, point)
                        \/ InsideAxisAligned(shape.coords, point)))
        => result = DistZero

\* strictly inside a vertical segment, and no vertex
C6_Witness ==
    /\ DistanceDone
    /\ shape.coords = << Coord(0, 0), Coord(2, 0), Coord(2, 2) >>
    /\ point = Coord(2, 1)
    /\ result = DistZero

\* C7 (as stated): a point strictly inside a diagonal segment of the
\* linestring is not contained.
C7_Original ==
    (ContainsDone /\ InsideDiagonal(shape.coords, point)) => result = FALSE

\* C7 (amended): a point strictly inside a diagonal segment of the linestring
\* is not contained, unless it equals a vertex of the linestring or lies
\* strictly between the ends of one of its horizontal or vertical segments.
C7_DiagonalInteriorMissed ==
    (/\ ContainsDone
     /\ InsideDiagonal(shape.coords, point)
     /\ ~IsVertex(shape.coords, point)
     /\ ~InsideAxisAligned(shape.coords, point)) => result = FALSE

C7_Witness ==
    /\ ContainsDone
    /\ shape.coords = << Coord(0, 0), Coord(2, 2), Coord(2, 0) >>
    /\ point = Coord(1, 1)
    /\ result = FALSE

\* C9: a linestring of exactly one coordinate never reaches the fold over
\* its segments, so the fold's initial value is never the distance returned.
C9_SingleCoordinateNoFold ==
    (DistanceDone /\ Len(shape.coords) = 1) => result # MaxValue

RECURSIVE MinSegmentDistance(_, _)
MinSegmentDistance(p, l) ==
    IF Len(l) = 2 THEN line_segment_distance(p, l[1], l[2])
    ELSE LET rest == MinSegmentDistance(p, Tail(l))
             first == line_segment_distance(p, l[1], l[2])
         IN  IF Lt(rest.sq, first.sq) THEN rest ELSE first

\* C10: for a linestring of at least two coordinates, containment implies
\* that the least segment distance is 0, so the distance returned is the
\* least segment distance whether or not the fast path fires.
C10_FastPathAgrees ==
    (DistanceDone /\ Len(shape.coords) >= 2) =>
        /\ line_string_contains_point(shape.coords, point)
              => MinSegmentDistance(point, shape.coords) = DistZero
        /\ result = MinSegmentDistance(point, shape.coords)

\* the fast path fires on a vertex; it does not on a diagonal's interior
C10_Witness ==
    /\ DistanceDone
    /\ shape.coords = << Coord(0, 0), Coord(2, 2), Coord(2, 0) >>
    /\ point = Coord(2, 2)
    /\ line_string_contains_point(shape.coords, point)
    /\ result = DistZero
    /\ ~line_string_contains_point(shape.coords, Coord(1, 1))
    /\ point_line_string_euclidean_distance(Coord(1, 1), shape.coords) = DistZero

====
